---- MODULE Spec2Model ----
(***************************************************************************)
(* The scheduler replicas of pkg/scheduler/scheduler.go: leader election,  *)
(* log replication and commit-index advancement over buffered channels.    *)
(* One action per iteration of SchedulerNode.Run: the handler selected by  *)
(* the select statement, followed by updateCommitIndex.                    *)
(***************************************************************************)
EXTENDS Integers, Sequences, FiniteSets, TLC

\* ---------------------------------------------------------------- bounds
\* Largest cohort size core.Config.SchedulerNodeCount explored.
MaxNodes == 3
\* Number of elections started (election timeouts handled), over all replicas.
MaxElections == 2
\* Number of heartbeat timeouts handled by Leaders, over all replicas.
MaxHeartbeats == 1
\* Number of timeouts handled by replicas that are not crashed, of both kinds.
MaxTimeouts == 2
\* Number of AppendEntry commands the client submits.
MaxAppend == 1
\* Number of Start commands the REPL sends to one replica.
MaxStart == 1
\* Number of Crash commands, and of Recover commands, the REPL sends.
MaxCrash == 1
\* core.Config.ChannelBufferSize: capacity of every channel.
ChannelBufferSize == 1

\* ------------------------------------------------------ program constants
NO_NODE == -1
FollowerState == 0
CandidateState == 1
LeaderState == 2

VARIABLES
    SchedulerNodeCount,  \* core.Config.SchedulerNodeCount, read once at startup
    node,                \* node[i]: the fields of SchedulerNode i
    NodeChannelMap,      \* NodeChannelMap[i]: the four inbound channels of node i
    outbox,              \* outbox[i]: sends of the running handler of i not yet done
    clientResponse,      \* last ResponseCommandRPC put on the client's channel
    waiting,             \* waiting[i]: i entered its select with its channels empty
    JobQueue,            \* JobQueue[w]: the JobQueue channel of worker w
    sent,                \* commands and timeouts so far, per kind, and the entries
                         \* Leaders have made of the client's submissions, in order
    limit                \* how many of each kind the run may hold

vars == <<SchedulerNodeCount, node, NodeChannelMap, outbox, clientResponse, waiting,
          JobQueue, sent, limit>>

Nodes == 0 .. (SchedulerNodeCount - 1)

SchedulerNodeType == "Scheduler"
ClientNodeType == "Client"

NodeCard(type, id) == [Type |-> type, Id |-> id]
ClientCard == NodeCard(ClientNodeType, 0)

\* ------------------------------------------------------------ log helpers
ZeroEntry == [Term |-> 0, WorkerId |-> 0, Job |-> [Id |-> 0, Term |-> 0, Input |-> 0]]

EmptyLog == [k \in {} |-> ZeroEntry]

\* Go map read: the zero value when the key is absent.
MapGet(m, i) == IF i \in DOMAIN m THEN m[i] ELSE ZeroEntry

\* Go map write m[i] = e.
MapSet(m, i, e) == [k \in (DOMAIN m) \cup {i} |-> IF k = i THEN e ELSE m[k]]

\* len(node.log)
LogLen(n) == Cardinality(DOMAIN n.log)

LogTerm(n, i) == IF i < 1 \/ i > LogLen(n) THEN 0 ELSE MapGet(n.log, i).Term

ExtractListFromMap(m, start, end) ==
    IF start > end THEN << >>
    ELSE [k \in 1 .. (end - start + 1) |-> MapGet(m, start + k - 1)]

\* FlushAfterIndex that deletes from index on, the entry at index included.
FlushAfterIndex_FromIndex(m, index) == [k \in {i \in DOMAIN m : i < index} |-> m[k]]

FlushAfterIndex(m, index) == [k \in {i \in DOMAIN m : i <= index} |-> m[k]]

MinUint32(a, b) == IF a <= b THEN a ELSE b

MaxUint32(a, b) == IF a >= b THEN a ELSE b

\* ------------------------------------------------------------- sorting
\* sort.Slice with the less function a < b: element i of the list goes to the
\* place that counts the elements below it (ties, all equal, in list order).
SortAsc(s) ==
    LET Place(i) ==
            1 + Cardinality({j \in 1 .. Len(s) : s[j] < s[i] \/ (s[j] = s[i] /\ j < i)})
    IN [p \in 1 .. Len(s) |-> s[CHOOSE i \in 1 .. Len(s) : Place(i) = p]]

\* ------------------------------------------------------------- messages
\* The other replicas in the order of the broadcast loops (ascending id).
Others(id) == [k \in 1 .. (SchedulerNodeCount - 1) |-> IF k - 1 < id THEN k - 1 ELSE k]

Send(card, chan, msg) == [To |-> card, Chan |-> chan, Msg |-> msg]

Result(n, out) == [node |-> n, out |-> out]

RequestCommandRPC(from, to, type, term, prevIndex, prevTerm, entries, commitIndex) ==
    [FromNode |-> from, ToNode |-> to, CommandType |-> type, Term |-> term,
     PrevIndex |-> prevIndex, PrevTerm |-> prevTerm, Entries |-> entries,
     CommitIndex |-> commitIndex]

ResponseCommandRPC(from, to, type, term, success, matchIndex, leaderId) ==
    [FromNode |-> from, ToNode |-> to, CommandType |-> type, Term |-> term,
     Success |-> success, MatchIndex |-> matchIndex, LeaderId |-> leaderId]

NoResponse == ResponseCommandRPC(ClientCard, ClientCard, "None", 0, FALSE, 0, 0)

RequestVoteRPC(from, to, term, candidateId, lastLogIndex, lastLogTerm) ==
    [FromNode |-> from, ToNode |-> to, Term |-> term, CandidateId |-> candidateId,
     LastLogIndex |-> lastLogIndex, LastLogTerm |-> lastLogTerm]

ResponseVoteRPC(from, to, term, voteGranted) ==
    [FromNode |-> from, ToNode |-> to, Term |-> term, VoteGranted |-> voteGranted]

\* ------------------------------------------------------- SchedulerNode
\* SchedulerNode.Init
InitNode(id) ==
    [Id |-> id,
     State |-> FollowerState,
     CurrentTerm |-> 0,
     LeaderId |-> NO_NODE,
     VotedFor |-> NO_NODE,
     VoteCount |-> 0,
     log |-> EmptyLog,
     jobIdCounter |-> 0,
     commitIndex |-> 0,
     matchIndex |-> [i \in Nodes |-> 0],
     nextIndex |-> [i \in Nodes |-> 1],
     IsStarted |-> FALSE,
     IsCrashed |-> FALSE]

Card(n) == NodeCard(SchedulerNodeType, n.Id)

\* addEntryToLog leaving nextIndex of the node itself as it was.
addEntryToLog_KeepNextIndex(n, entry) ==
    LET index == n.nextIndex[n.Id]
    IN [n EXCEPT !.log = MapSet(n.log, index, entry)]

addEntryToLog(n, entry) ==
    LET index == n.nextIndex[n.Id]
    IN [n EXCEPT !.log = MapSet(n.log, index, entry),
                 !.nextIndex[n.Id] = index + 1]

\* updateTerm with a test for a different term in place of a higher one.
updateTerm_AnyOtherTerm(n, term) ==
    IF term # n.CurrentTerm
    THEN [n EXCEPT !.CurrentTerm = term, !.State = FollowerState, !.VotedFor = NO_NODE]
    ELSE n

updateTerm(n, term) ==
    IF term > n.CurrentTerm
    THEN [n EXCEPT !.CurrentTerm = term, !.State = FollowerState, !.VotedFor = NO_NODE]
    ELSE n

\* checkVote without its test: a vote is given whatever was voted before.
checkVote_AnyVote(n, candidateId) == TRUE

checkVote(n, candidateId) == n.VotedFor = NO_NODE \/ n.VotedFor = candidateId

\* becomeLeader that sets nextIndex to the first index in place of the one after
\* the last.
becomeLeader_NextIndexOne(n) ==
    [n EXCEPT !.State = LeaderState,
              !.LeaderId = n.Id,
              !.nextIndex = [i \in Nodes |-> 1],
              !.jobIdCounter = 0]

becomeLeader(n) ==
    [n EXCEPT !.State = LeaderState,
              !.LeaderId = n.Id,
              !.nextIndex = [i \in Nodes |-> LogLen(n) + 1],
              !.jobIdCounter = 0]

\* The list has len(matchIndex)+1 zeroed slots, the copy fills the first
\* len(matchIndex) of them, and append adds len(node.log) as one more element.
updateCommitIndex(n) ==
    IF n.State # LeaderState THEN n
    ELSE LET matchIndexMedianList ==
                 SortAsc([k \in 1 .. SchedulerNodeCount |-> n.matchIndex[k - 1]]
                         \o <<0>> \o <<LogLen(n)>>)
             median == matchIndexMedianList[(SchedulerNodeCount \div 2) + 1]
         IN IF LogTerm(n, median) = n.CurrentTerm
            THEN [n EXCEPT !.commitIndex = median]
            ELSE n

\* core.Config.WorkerNodeCount
WorkerNodeCount == 2

Workers == 0 .. (WorkerNodeCount - 1)

\* The worker with the fewest jobs in its queue, the first of them in a tie.
GetWorkerId(n) ==
    CHOOSE w \in Workers :
        \A v \in Workers :
            \/ Len(JobQueue[w]) < Len(JobQueue[v])
            \/ (Len(JobQueue[w]) = Len(JobQueue[v]) /\ w <= v)

\* ------------------------------------------------------- broadcasting
broadcastRequestVote(n) ==
    [k \in 1 .. (SchedulerNodeCount - 1) |->
        LET i == Others(n.Id)[k]
            lastLogIndex == LogLen(n)
        IN Send(NodeCard(SchedulerNodeType, i), "RequestVote",
                RequestVoteRPC(Card(n), NodeCard(SchedulerNodeType, i), n.CurrentTerm,
                               n.Id, lastLogIndex, LogTerm(n, lastLogIndex)))]

sendSynchronizeCommandRPC(n, nodeId) ==
    LET lastIndex == LogLen(n)
    IN Send(NodeCard(SchedulerNodeType, nodeId), "RequestCommand",
            RequestCommandRPC(Card(n), NodeCard(SchedulerNodeType, nodeId),
                              "Synchronize", n.CurrentTerm,
                              n.nextIndex[nodeId] - 1,
                              LogTerm(n, n.nextIndex[nodeId] - 1),
                              ExtractListFromMap(n.log, n.nextIndex[nodeId], lastIndex),
                              n.commitIndex))

broadcastSynchronizeCommandRPC(n) ==
    [k \in 1 .. (SchedulerNodeCount - 1) |-> sendSynchronizeCommandRPC(n, Others(n.Id)[k])]

\* ------------------------------------------------ configuration commands
startNewElection(n) ==
    LET n1 == [n EXCEPT !.State = CandidateState,
                        !.VoteCount = 1,
                        !.CurrentTerm = n.CurrentTerm + 1,
                        !.VotedFor = n.Id]
    IN Result(n1, broadcastRequestVote(n1))

\* handleTimeout without its crash test.
handleTimeout_NoCrashTest(n) ==
    IF n.State = LeaderState THEN Result(n, broadcastSynchronizeCommandRPC(n))
    ELSE startNewElection(n)

handleTimeout(n) ==
    IF n.IsCrashed THEN Result(n, << >>)
    ELSE IF n.State = LeaderState THEN Result(n, broadcastSynchronizeCommandRPC(n))
    ELSE startNewElection(n)

handleStartCommand(n) ==
    IF n.IsStarted THEN Result(n, << >>) ELSE Result([n EXCEPT !.IsStarted = TRUE], << >>)

\* handleCrashCommand that flips IsCrashed.
handleCrashCommand_Flip(n) == Result([n EXCEPT !.IsCrashed = ~n.IsCrashed], << >>)

handleCrashCommand(n) ==
    IF n.IsCrashed THEN Result(n, << >>) ELSE Result([n EXCEPT !.IsCrashed = TRUE], << >>)

handleRecoverCommand(n) ==
    IF n.IsCrashed THEN Result([n EXCEPT !.IsCrashed = FALSE], << >>) ELSE Result(n, << >>)

\* ---------------------------------------------------------- handle RPC
\* The write loop of handleRequestSynchronizeCommand, from entry j on.
RECURSIVE WriteEntries(_, _, _, _)
WriteEntries(n, prevIndex, entries, j) ==
    IF j > Len(entries) THEN n
    ELSE LET index == prevIndex + j
             n1 == IF LogTerm(n, index) # entries[j].Term
                   THEN [n EXCEPT !.log = MapSet(n.log, index, entries[j])]
                   ELSE n
         IN WriteEntries(n1, prevIndex, entries, j + 1)

\* handleRequestSynchronizeCommand without its test for a request of a lower term.
handleRequestSynchronizeCommand_NoStaleTest(n, request) ==
    IF n.IsCrashed THEN Result(n, << >>)
    ELSE
    LET response(success, matchIndex) ==
            Send(request.FromNode, "ResponseCommand",
                 ResponseCommandRPC(Card(n), request.FromNode, request.CommandType,
                                    n.CurrentTerm, success, matchIndex, 0))
        n1 == updateTerm(n, request.Term)
        n2 == [n1 EXCEPT !.LeaderId = request.FromNode.Id, !.State = FollowerState]
        lastLogConsistency ==
            /\ LogTerm(n2, request.PrevIndex) = request.PrevTerm
            /\ request.PrevIndex <= LogLen(n2)
        success == request.PrevIndex = 0 \/ lastLogConsistency
    IN IF success
       THEN LET index == request.PrevIndex + Len(request.Entries)
                n3 == WriteEntries(n2, request.PrevIndex, request.Entries, 1)
                n4 == [n3 EXCEPT !.log = FlushAfterIndex(n3.log, index),
                                 !.commitIndex = MinUint32(request.CommitIndex, index)]
            IN Result(n4, <<response(TRUE, index)>>)
       ELSE Result(n2, <<response(FALSE, 0)>>)

\* response.Term is read from node.CurrentTerm when the response is built,
\* before updateTerm(request.Term) runs.
handleRequestSynchronizeCommand(n, request) ==
    IF n.IsCrashed THEN Result(n, << >>)
    ELSE
    LET response(success, matchIndex) ==
            Send(request.FromNode, "ResponseCommand",
                 ResponseCommandRPC(Card(n), request.FromNode, request.CommandType,
                                    n.CurrentTerm, success, matchIndex, 0))
        n1 == updateTerm(n, request.Term)
    IN IF n1.CurrentTerm > request.Term THEN Result(n1, <<response(FALSE, 0)>>)
       ELSE
       LET n2 == [n1 EXCEPT !.LeaderId = request.FromNode.Id, !.State = FollowerState]
           lastLogConsistency ==
               /\ LogTerm(n2, request.PrevIndex) = request.PrevTerm
               /\ request.PrevIndex <= LogLen(n2)
           success == request.PrevIndex = 0 \/ lastLogConsistency
       IN IF success
          THEN LET index == request.PrevIndex + Len(request.Entries)
                   n3 == WriteEntries(n2, request.PrevIndex, request.Entries, 1)
                   n4 == [n3 EXCEPT !.log = FlushAfterIndex(n3.log, index),
                                    !.commitIndex = MinUint32(request.CommitIndex, index)]
               IN Result(n4, <<response(TRUE, index)>>)
          ELSE Result(n2, <<response(FALSE, 0)>>)

\* handleResponseSynchronizeCommand that leaves nextIndex as it is when the
\* Follower has refused.
handleResponseSynchronizeCommand_NoStepBack(n, response) ==
    IF n.IsCrashed THEN Result(n, << >>)
    ELSE
    LET n1 == updateTerm(n, response.Term)
        fromNode == response.FromNode.Id
    IN IF n1.State = LeaderState /\ n1.CurrentTerm = response.Term /\ response.Success
       THEN Result([n1 EXCEPT !.matchIndex[fromNode] = response.MatchIndex,
                              !.nextIndex[fromNode] = response.MatchIndex + 1],
                   << >>)
       ELSE Result(n1, << >>)

handleResponseSynchronizeCommand(n, response) ==
    IF n.IsCrashed THEN Result(n, << >>)
    ELSE
    LET n1 == updateTerm(n, response.Term)
        fromNode == response.FromNode.Id
    IN IF n1.State = LeaderState /\ n1.CurrentTerm = response.Term
       THEN IF response.Success
            THEN Result([n1 EXCEPT !.matchIndex[fromNode] = response.MatchIndex,
                                   !.nextIndex[fromNode] = response.MatchIndex + 1],
                        << >>)
            ELSE Result([n1 EXCEPT !.nextIndex[fromNode] =
                                       MaxUint32(1, n1.nextIndex[fromNode] - 1)],
                        << >>)
       ELSE Result(n1, << >>)

\* handleAppendEntryCommand without its Leader test: the entry is appended whatever the state.
handleAppendEntryCommand_NoLeaderTest(n, request) ==
    IF n.IsCrashed THEN Result(n, << >>)
    ELSE
    LET entry == [Term |-> n.CurrentTerm,
                  WorkerId |-> GetWorkerId(n),
                  Job |-> [Id |-> n.jobIdCounter + 1,
                           Term |-> n.CurrentTerm,
                           Input |-> request.Entries[1].Job.Input]]
        n1 == [n EXCEPT !.jobIdCounter = n.jobIdCounter + 1]
    IN Result(addEntryToLog(n1, entry),
              <<Send(request.FromNode, "ResponseCommand",
                     ResponseCommandRPC(Card(n), request.FromNode, request.CommandType,
                                        n.CurrentTerm, TRUE, 0, n.LeaderId))>>)

\* handleAppendEntryCommand with a GetJobId that does not store the counter.
handleAppendEntryCommand_SameJobId(n, request) ==
    IF n.IsCrashed THEN Result(n, << >>)
    ELSE
    LET response(success) ==
            Send(request.FromNode, "ResponseCommand",
                 ResponseCommandRPC(Card(n), request.FromNode, request.CommandType,
                                    n.CurrentTerm, success, 0, n.LeaderId))
    IN IF n.State = LeaderState
       THEN LET entry == [Term |-> n.CurrentTerm,
                          WorkerId |-> GetWorkerId(n),
                          Job |-> [Id |-> n.jobIdCounter + 1,
                                   Term |-> n.CurrentTerm,
                                   Input |-> request.Entries[1].Job.Input]]
            IN Result(addEntryToLog(n, entry), <<response(TRUE)>>)
       ELSE Result(n, <<response(FALSE)>>)

handleAppendEntryCommand(n, request) ==
    IF n.IsCrashed THEN Result(n, << >>)
    ELSE
    LET response(success) ==
            Send(request.FromNode, "ResponseCommand",
                 ResponseCommandRPC(Card(n), request.FromNode, request.CommandType,
                                    n.CurrentTerm, success, 0, n.LeaderId))
    IN IF n.State = LeaderState
       THEN LET entry == [Term |-> n.CurrentTerm,
                          WorkerId |-> GetWorkerId(n),
                          Job |-> [Id |-> n.jobIdCounter + 1,
                                   Term |-> n.CurrentTerm,
                                   Input |-> request.Entries[1].Job.Input]]
                n1 == [n EXCEPT !.jobIdCounter = n.jobIdCounter + 1]
            IN Result(addEntryToLog(n1, entry), <<response(TRUE)>>)
       ELSE Result(n, <<response(FALSE)>>)

handleRequestCommandRPC(n, request) ==
    CASE request.CommandType = "Synchronize" -> handleRequestSynchronizeCommand(n, request)
      [] request.CommandType = "AppendEntry" -> handleAppendEntryCommand(n, request)
      [] request.CommandType = "Start" -> handleStartCommand(n)
      [] request.CommandType = "Crash" -> handleCrashCommand(n)
      [] request.CommandType = "Recover" -> handleRecoverCommand(n)
      [] OTHER -> Result(n, << >>)

handleResponseCommandRPC(n, response) ==
    IF response.CommandType = "Synchronize"
    THEN handleResponseSynchronizeCommand(n, response)
    ELSE Result(n, << >>)

\* handleRequestVoteRPC that compares the last terms only, not the last indices.
handleRequestVoteRPC_TermOnly(n, request) ==
    IF n.IsCrashed THEN Result(n, << >>)
    ELSE
    LET n1 == updateTerm(n, request.Term)
        response(voteGranted) ==
            Send(NodeCard(SchedulerNodeType, request.FromNode.Id), "ResponseVote",
                 ResponseVoteRPC(request.ToNode, request.FromNode, n1.CurrentTerm,
                                 voteGranted))
        logConsistency == request.LastLogTerm >= LogTerm(n1, LogLen(n1))
    IN IF /\ n1.CurrentTerm = request.Term
          /\ checkVote(n1, request.CandidateId)
          /\ logConsistency
       THEN Result([n1 EXCEPT !.VotedFor = request.CandidateId], <<response(TRUE)>>)
       ELSE Result(n1, <<response(FALSE)>>)

handleRequestVoteRPC(n, request) ==
    IF n.IsCrashed THEN Result(n, << >>)
    ELSE
    LET n1 == updateTerm(n, request.Term)
        response(voteGranted) ==
            Send(NodeCard(SchedulerNodeType, request.FromNode.Id), "ResponseVote",
                 ResponseVoteRPC(request.ToNode, request.FromNode, n1.CurrentTerm,
                                 voteGranted))
        lastLogIndex == LogLen(n1)
        lastLogTerm == LogTerm(n1, lastLogIndex)
        logConsistency ==
            \/ request.LastLogTerm > lastLogTerm
            \/ (request.LastLogTerm = lastLogTerm /\ request.LastLogIndex >= lastLogIndex)
    IN IF /\ n1.CurrentTerm = request.Term
          /\ checkVote(n1, request.CandidateId)
          /\ logConsistency
       THEN Result([n1 EXCEPT !.VotedFor = request.CandidateId], <<response(TRUE)>>)
       ELSE Result(n1, <<response(FALSE)>>)

handleResponseVoteRPC(n, response) ==
    IF n.IsCrashed THEN Result(n, << >>)
    ELSE
    LET n1 == updateTerm(n, response.Term)
    IN IF n1.State = CandidateState /\ n1.CurrentTerm = response.Term
       THEN IF response.VoteGranted
            THEN LET n2 == [n1 EXCEPT !.VoteCount = n1.VoteCount + 1]
                 IN IF n2.VoteCount > SchedulerNodeCount \div 2
                    THEN Result(becomeLeader(n2), << >>)
                    ELSE Result(n2, << >>)
            ELSE Result(n1, << >>)
       ELSE Result(n1, << >>)

\* ------------------------------------------------------------ channels
EmptyChannels ==
    [RequestCommand |-> << >>, ResponseCommand |-> << >>,
     RequestVote |-> << >>, ResponseVote |-> << >>]

HasRoom(chans, id, chan) == Len(chans[id][chan]) < ChannelBufferSize

\* The channel sends of a handler, in program order: a send to a full channel
\* suspends the handler there, and the sends from that one on stay to be done.
\* The client's channel is read by the client and always takes the message.
RECURSIVE Deliver(_, _, _)
Deliver(chans, client, out) ==
    IF out = << >> THEN [chans |-> chans, client |-> client, rest |-> << >>]
    ELSE LET s == Head(out)
         IN IF s.To.Type = ClientNodeType THEN Deliver(chans, s.Msg, Tail(out))
            ELSE IF HasRoom(chans, s.To.Id, s.Chan)
            THEN Deliver([chans EXCEPT ![s.To.Id][s.Chan] = Append(@, s.Msg)],
                         client, Tail(out))
            ELSE [chans |-> chans, client |-> client, rest |-> out]

\* One iteration of a loop of Run for node i: the handler's result res, its sends,
\* and, in the main loop, updateCommitIndex once the handler has returned.  The
\* node then enters the select of the main loop: time.After can become the case
\* taken only if no channel holds a message at that moment, and a message that
\* comes after the timer has fired finds the timeout handler running.  No
\* handler, and no statement of updateCommitIndex, sends on a JobQueue.
Iterate(i, chans, res, mainLoop) ==
    \E r \in {res} : \E d \in {Deliver(chans, clientResponse, r.out)} :
        /\ NodeChannelMap' = d.chans
        /\ JobQueue' = JobQueue
        /\ clientResponse' = d.client
        /\ outbox' = [outbox EXCEPT ![i] = d.rest]
        /\ waiting' = [waiting EXCEPT ![i] = /\ r.node.IsStarted
                                             /\ d.rest = << >>
                                             /\ d.chans[i] = EmptyChannels]
        /\ node' = [node EXCEPT ![i] = IF mainLoop /\ d.rest = << >>
                                       THEN updateCommitIndex(r.node)
                                       ELSE r.node]

Receive(i, chan) == [NodeChannelMap EXCEPT ![i][chan] = Tail(@)]

Idle(i) == outbox[i] = << >>

\* --------------------------------------------------------------- Init
NodeCounts == 1 .. MaxNodes

Limits(start, crash, recover, append, election, heartbeat, timeout) ==
    [Start |-> start, Crash |-> crash, Recover |-> recover, Append |-> append,
     Election |-> election, Heartbeat |-> heartbeat, Timeout |-> timeout]

\* The timers of the run that have fired and whose handler was not a crashed
\* replica's.
Timeouts == sent.Election + sent.Heartbeat

\* The state after SchedulerNode.Init of every replica of a cohort of count nodes.
Constructed(count, limits) ==
    /\ SchedulerNodeCount = count
    /\ node = [i \in Nodes |-> InitNode(i)]
    /\ NodeChannelMap = [i \in Nodes |-> EmptyChannels]
    /\ outbox = [i \in Nodes |-> << >>]
    /\ waiting = [i \in Nodes |-> FALSE]
    /\ JobQueue = [w \in Workers |-> << >>]
    /\ clientResponse = NoResponse
    /\ sent = [Start |-> [i \in Nodes |-> 0], Crash |-> 0, Recover |-> 0, Append |-> 0,
               Election |-> 0, Heartbeat |-> 0, Accepted |-> << >>]
    /\ limit = limits

Init ==
    \E count \in NodeCounts :
        Constructed(count, Limits(MaxStart, MaxCrash, MaxCrash, MaxAppend,
                                  MaxElections, MaxHeartbeats, MaxTimeouts))

\* ------------------------------------------------------------- Run
\* The first loop of Run: until IsStarted, only RequestCommand is received.
WaitStart(i) ==
    /\ ~node[i].IsStarted
    /\ Idle(i)
    /\ NodeChannelMap[i].RequestCommand # << >>
    /\ Iterate(i, Receive(i, "RequestCommand"),
               handleRequestCommandRPC(node[i], Head(NodeChannelMap[i].RequestCommand)),
               FALSE)
    /\ UNCHANGED <<SchedulerNodeCount, sent, limit>>

RecvRequestCommand(i) ==
    /\ node[i].IsStarted
    /\ Idle(i)
    /\ NodeChannelMap[i].RequestCommand # << >>
    /\ Iterate(i, Receive(i, "RequestCommand"),
               handleRequestCommandRPC(node[i], Head(NodeChannelMap[i].RequestCommand)),
               TRUE)
    /\ UNCHANGED <<SchedulerNodeCount, sent, limit>>

RecvResponseCommand(i) ==
    /\ node[i].IsStarted
    /\ Idle(i)
    /\ NodeChannelMap[i].ResponseCommand # << >>
    /\ Iterate(i, Receive(i, "ResponseCommand"),
               handleResponseCommandRPC(node[i], Head(NodeChannelMap[i].ResponseCommand)),
               TRUE)
    /\ UNCHANGED <<SchedulerNodeCount, sent, limit>>

RecvRequestVote(i) ==
    /\ node[i].IsStarted
    /\ Idle(i)
    /\ NodeChannelMap[i].RequestVote # << >>
    /\ Iterate(i, Receive(i, "RequestVote"),
               handleRequestVoteRPC(node[i], Head(NodeChannelMap[i].RequestVote)),
               TRUE)
    /\ UNCHANGED <<SchedulerNodeCount, sent, limit>>

RecvResponseVote(i) ==
    /\ node[i].IsStarted
    /\ Idle(i)
    /\ NodeChannelMap[i].ResponseVote # << >>
    /\ Iterate(i, Receive(i, "ResponseVote"),
               handleResponseVoteRPC(node[i], Head(NodeChannelMap[i].ResponseVote)),
               TRUE)
    /\ UNCHANGED <<SchedulerNodeCount, sent, limit>>

\* The time.After case of the select for a Follower or a Candidate: the election
\* timeout.
ElectionTimeout(i) ==
    /\ node[i].IsStarted
    /\ Idle(i)
    /\ waiting[i]
    /\ node[i].State # LeaderState
    /\ node[i].IsCrashed \/ (sent.Election < limit.Election /\ Timeouts < limit.Timeout)
    /\ Iterate(i, NodeChannelMap, handleTimeout(node[i]), TRUE)
    /\ sent' = IF node[i].IsCrashed THEN sent ELSE [sent EXCEPT !.Election = @ + 1]
    /\ UNCHANGED <<SchedulerNodeCount, limit>>

\* The same case for a Leader: core.Config.IsAliveNotificationInterval.
IsAliveTimeout(i) ==
    /\ node[i].IsStarted
    /\ Idle(i)
    /\ waiting[i]
    /\ node[i].State = LeaderState
    /\ node[i].IsCrashed \/ (sent.Heartbeat < limit.Heartbeat /\ Timeouts < limit.Timeout)
    /\ Iterate(i, NodeChannelMap, handleTimeout(node[i]), TRUE)
    /\ sent' = IF node[i].IsCrashed THEN sent ELSE [sent EXCEPT !.Heartbeat = @ + 1]
    /\ UNCHANGED <<SchedulerNodeCount, limit>>

\* A handler suspended on a send to a full channel goes on when there is room.
CompleteSend(i) ==
    /\ ~Idle(i)
    /\ HasRoom(NodeChannelMap, Head(outbox[i]).To.Id, Head(outbox[i]).Chan)
    /\ Iterate(i, NodeChannelMap, Result(node[i], outbox[i]), node[i].IsStarted)
    /\ UNCHANGED <<SchedulerNodeCount, sent, limit>>

\* ------------------------------------------------- REPL and client
Command(i, type, entries) ==
    RequestCommandRPC(ClientCard, NodeCard(SchedulerNodeType, i), type, 0, 0, 0, entries, 0)

\* A command of the REPL or of the client reaches the RequestCommand channel of
\* node i while the node waits in its select with that channel empty, and the
\* loop the node is in receives it.
Deliverable(i) == Idle(i) /\ NodeChannelMap[i].RequestCommand = << >>

ReceiveCommand(i, request) ==
    Iterate(i, NodeChannelMap, handleRequestCommandRPC(node[i], request), node[i].IsStarted)

ReplStart(i) ==
    /\ sent.Start[i] < limit.Start
    /\ Deliverable(i)
    /\ ReceiveCommand(i, Command(i, "Start", << >>))
    /\ sent' = [sent EXCEPT !.Start[i] = @ + 1]
    /\ UNCHANGED <<SchedulerNodeCount, limit>>

ReplCrash(i) ==
    /\ sent.Crash < limit.Crash
    /\ Deliverable(i)
    /\ ReceiveCommand(i, Command(i, "Crash", << >>))
    /\ sent' = [sent EXCEPT !.Crash = @ + 1]
    /\ UNCHANGED <<SchedulerNodeCount, limit>>

\* The REPL sends Recover to a replica it has crashed.
ReplRecover(i) ==
    /\ sent.Recover < limit.Recover
    /\ node[i].IsCrashed
    /\ Deliverable(i)
    /\ ReceiveCommand(i, Command(i, "Recover", << >>))
    /\ sent' = [sent EXCEPT !.Recover = @ + 1]
    /\ UNCHANGED <<SchedulerNodeCount, limit>>

ClientAppendEntry(i) ==
    /\ sent.Append < limit.Append
    /\ Deliverable(i)
    /\ ReceiveCommand(i, Command(i, "AppendEntry",
                                 <<[ZeroEntry EXCEPT !.Job.Input = sent.Append + 1]>>))
    /\ sent' = [sent EXCEPT !.Append = @ + 1,
                            !.Accepted =
                                IF ~node[i].IsCrashed /\ node[i].State = LeaderState
                                THEN Append(@, [Leader |-> i,
                                                Entry |-> MapGet(node'[i].log,
                                                                 node[i].nextIndex[i])])
                                ELSE @]
    /\ UNCHANGED <<SchedulerNodeCount, limit>>

Next ==
    \/ \E i \in Nodes : ReplStart(i)
    \/ \E i \in Nodes : ReplCrash(i)
    \/ \E i \in Nodes : ReplRecover(i)
    \/ \E i \in Nodes : ClientAppendEntry(i)
    \/ \E i \in Nodes : WaitStart(i)
    \/ \E i \in Nodes : RecvRequestCommand(i)
    \/ \E i \in Nodes : RecvResponseCommand(i)
    \/ \E i \in Nodes : RecvRequestVote(i)
    \/ \E i \in Nodes : RecvResponseVote(i)
    \/ \E i \in Nodes : ElectionTimeout(i)
    \/ \E i \in Nodes : IsAliveTimeout(i)
    \/ \E i \in Nodes : CompleteSend(i)

Spec == Init /\ [][Next]_vars

\* ------------------------------------------------ runs without crashes
\* The runs in which the REPL sends no Crash: every replica that is started
\* takes part until the end.
NextNoCrash ==
    \/ \E i \in Nodes : ReplStart(i)
    \/ \E i \in Nodes : ClientAppendEntry(i)
    \/ \E i \in Nodes : WaitStart(i)
    \/ \E i \in Nodes : RecvRequestCommand(i)
    \/ \E i \in Nodes : RecvResponseCommand(i)
    \/ \E i \in Nodes : RecvRequestVote(i)
    \/ \E i \in Nodes : RecvResponseVote(i)
    \/ \E i \in Nodes : ElectionTimeout(i)
    \/ \E i \in Nodes : IsAliveTimeout(i)
    \/ \E i \in Nodes : CompleteSend(i)

\* Three replicas and two submissions: two Leaders can each append an entry.
InitLog ==
    Constructed(MaxNodes, Limits(MaxStart, 0, 0, MaxAppend + 1, MaxElections, MaxHeartbeats,
                                 MaxTimeouts + 1))

SpecLog == InitLog /\ [][NextNoCrash]_vars

\* ------------------------------------------------ runs with commits
\* No handler is suspended and no channel holds a message.
Quiet == \A i \in Nodes : Idle(i) /\ NodeChannelMap[i] = EmptyChannels

\* One replica more than MaxNodes, the smallest cohort in which updateCommitIndex
\* moves commitIndex, and two heartbeats more: one that carries the entry, one
\* that carries its commit index, and one after a Follower has answered that.
InitCommit ==
    Constructed(MaxNodes + 1,
                Limits(MaxStart, 0, 0, MaxAppend, MaxElections, MaxHeartbeats + 2,
                       MaxTimeouts + 3))

\* The timers and the client are slow next to the replicas: a timer fires, and
\* the client submits, when the messages of the step before have been handled.
\* A replica that is not started leaves the RequestVote of a Candidate in its
\* channel, so no Leader sends it a SynchronizeCommand here, and the first loop
\* of Run receives nothing but the Start that ReplStart hands it.
NextCommit ==
    \/ \E i \in Nodes : ReplStart(i)
    \/ \E i \in Nodes : Quiet /\ ClientAppendEntry(i)
    \/ \E i \in Nodes : RecvRequestCommand(i)
    \/ \E i \in Nodes : RecvResponseCommand(i)
    \/ \E i \in Nodes : RecvRequestVote(i)
    \/ \E i \in Nodes : RecvResponseVote(i)
    \/ \E i \in Nodes : Quiet /\ ElectionTimeout(i)
    \/ \E i \in Nodes : Quiet /\ IsAliveTimeout(i)
    \/ \E i \in Nodes : CompleteSend(i)

SpecCommit == InitCommit /\ [][NextCommit]_vars

\* ------------------------------------------------ runs with longer logs
\* MaxNodes replicas and two submissions more than MaxAppend: a Leader takes two
\* entries and the Leader after it a third.  The timers and the client are slow
\* as in the runs with commits.
InitTerms ==
    Constructed(MaxNodes, Limits(MaxStart, 0, 0, MaxAppend + 2, MaxElections, MaxHeartbeats,
                                 MaxTimeouts + 1))

SpecTerms == InitTerms /\ [][NextCommit]_vars

\* ------------------------------------------------ runs with repeated commands
\* The REPL sends Recover to any replica, crashed or not.
ReplRecoverAny(i) ==
    /\ sent.Recover < limit.Recover
    /\ Deliverable(i)
    /\ ReceiveCommand(i, Command(i, "Recover", << >>))
    /\ sent' = [sent EXCEPT !.Recover = @ + 1]
    /\ UNCHANGED <<SchedulerNodeCount, limit>>

\* MaxNodes replicas to which the REPL sends each of Start, Crash and Recover once
\* more than in the other runs, to replicas in any state.  The REPL, the client
\* and the timers are slow as in the runs with commits.
InitToggle ==
    Constructed(MaxNodes, Limits(MaxStart + 1, MaxCrash + 1, MaxCrash + 1, MaxAppend,
                                 MaxElections, MaxHeartbeats, MaxTimeouts))

NextToggle ==
    \/ \E i \in Nodes : ReplStart(i)
    \/ \E i \in Nodes : Quiet /\ ReplCrash(i)
    \/ \E i \in Nodes : Quiet /\ ReplRecoverAny(i)
    \/ \E i \in Nodes : Quiet /\ ClientAppendEntry(i)
    \/ \E i \in Nodes : RecvRequestCommand(i)
    \/ \E i \in Nodes : RecvResponseCommand(i)
    \/ \E i \in Nodes : RecvRequestVote(i)
    \/ \E i \in Nodes : RecvResponseVote(i)
    \/ \E i \in Nodes : Quiet /\ ElectionTimeout(i)
    \/ \E i \in Nodes : Quiet /\ IsAliveTimeout(i)
    \/ \E i \in Nodes : CompleteSend(i)

SpecToggle == InitToggle /\ [][NextToggle]_vars

\* ------------------------------------------------ runs with re-elections
\* A schedule of the REPL, the client and the timers in a cohort of MaxNodes + 2:
\* replica 0 is elected again and again; in each of its terms it accepts one
\* entry and sends one heartbeat while all the others but one are crashed; then
\* the others are recovered and one of them is elected and sends a heartbeat.
Ev(event, id) == [Event |-> event, Id |-> id]

EvAll(event, ids) == [k \in 1 .. Len(ids) |-> Ev(event, ids[k])]

ReelectNodes == MaxNodes + 2

Followers == [k \in 1 .. (ReelectNodes - 1) |-> k]

Silent(f) == SelectSeq(Followers, LAMBDA j : j # f)

\* A term of replica 0 in which only replica f takes its heartbeat.
TermOfZero(f) ==
    <<Ev("Timeout", 0), Ev("AppendEntry", 0)>> \o EvAll("Crash", Silent(f))
        \o <<Ev("Timeout", 0)>> \o EvAll("Recover", Silent(f))

\* Replica g is elected and sends a heartbeat.
TermOf(g) == <<Ev("Timeout", g), Ev("Timeout", g)>>

RECURSIVE Terms(_)
Terms(f) ==
    IF f = ReelectNodes - 1 THEN TermOfZero(f) \o TermOf(1)
    ELSE TermOfZero(f) \o TermOf(f + 1) \o Terms(f + 1)

Schedule == EvAll("Start", <<0>> \o Followers) \o Terms(1)

CountOf(event) == Len(SelectSeq(Schedule, LAMBDA e : e.Event = event))

RECURSIVE StartsSent(_)
StartsSent(ids) ==
    IF ids = {} THEN 0
    ELSE LET i == CHOOSE x \in ids : TRUE IN sent.Start[i] + StartsSent(ids \ {i})

\* The events of the schedule that have happened.
Happened ==
    StartsSent(Nodes) + sent.Crash + sent.Recover + sent.Append + sent.Election
        + sent.Heartbeat

\* The next event of the schedule, due when the messages have been handled.
Scheduled(event, i) ==
    /\ Happened < Len(Schedule)
    /\ Schedule[Happened + 1] = Ev(event, i)
    /\ Quiet

InitReelect ==
    Constructed(ReelectNodes,
                Limits(MaxStart, CountOf("Crash"), CountOf("Recover"), CountOf("AppendEntry"),
                       CountOf("Timeout"), CountOf("Timeout"), CountOf("Timeout")))

NextReelect ==
    \/ \E i \in Nodes : Scheduled("Start", i) /\ ReplStart(i)
    \/ \E i \in Nodes : Scheduled("Crash", i) /\ ReplCrash(i)
    \/ \E i \in Nodes : Scheduled("Recover", i) /\ ReplRecover(i)
    \/ \E i \in Nodes : Scheduled("AppendEntry", i) /\ ClientAppendEntry(i)
    \/ \E i \in Nodes : Scheduled("Timeout", i) /\ ElectionTimeout(i)
    \/ \E i \in Nodes : Scheduled("Timeout", i) /\ IsAliveTimeout(i)
    \/ \E i \in Nodes : RecvRequestCommand(i)
    \/ \E i \in Nodes : RecvResponseCommand(i)
    \/ \E i \in Nodes : RecvRequestVote(i)
    \/ \E i \in Nodes : RecvResponseVote(i)
    \/ \E i \in Nodes : CompleteSend(i)

SpecReelect == InitReelect /\ [][NextReelect]_vars

\* ------------------------------------------------ the happy path
\* A cohort of MaxNodes replicas, no crash, one election: the Leader it makes
\* stays Leader, and its heartbeats go on without a bound on their number, each
\* one when the messages of the one before have been handled.
IsAliveTimeoutAgain(i) ==
    /\ Quiet
    /\ node[i].IsStarted
    /\ Idle(i)
    /\ waiting[i]
    /\ node[i].State = LeaderState
    /\ Iterate(i, NodeChannelMap, handleTimeout(node[i]), TRUE)
    /\ UNCHANGED <<SchedulerNodeCount, sent, limit>>

InitLive == Constructed(MaxNodes, Limits(MaxStart, 0, 0, MaxAppend, 1, 0, 1))

NextLive ==
    \/ \E i \in Nodes : ReplStart(i)
    \/ \E i \in Nodes : ClientAppendEntry(i)
    \/ \E i \in Nodes : RecvRequestCommand(i)
    \/ \E i \in Nodes : RecvResponseCommand(i)
    \/ \E i \in Nodes : RecvRequestVote(i)
    \/ \E i \in Nodes : RecvResponseVote(i)
    \/ \E i \in Nodes : ElectionTimeout(i)
    \/ \E i \in Nodes : IsAliveTimeoutAgain(i)
    \/ \E i \in Nodes : CompleteSend(i)

LiveNodes == 0 .. (MaxNodes - 1)

\* The steps of the goroutine of replica i in these runs.
Step(i) ==
    \/ RecvRequestCommand(i)
    \/ RecvResponseCommand(i)
    \/ RecvRequestVote(i)
    \/ RecvResponseVote(i)
    \/ IsAliveTimeoutAgain(i)
    \/ CompleteSend(i)

\* Every goroutine runs: a replica that can receive a message, go on with a
\* suspended send, or send its heartbeat, does take a step.
Fairness == \A i \in LiveNodes : WF_vars(Step(i))

SpecLive == InitLive /\ [][NextLive]_vars /\ Fairness

\* ------------------------------------------------ recovery of a Follower
\* A cohort of MaxNodes replicas in which the REPL crashes one replica and
\* recovers it, the client submits while a replica is crashed, and Leaders send
\* heartbeats without a bound on their number.  The REPL, the client and the
\* timers act when the messages of the step before have been handled.
SomeCrashed == \E i \in Nodes : node[i].IsCrashed

InitRecover ==
    Constructed(MaxNodes, Limits(MaxStart, MaxCrash, MaxCrash, MaxAppend, MaxElections, 0,
                                 MaxElections))

NextRecover ==
    \/ \E i \in Nodes : ReplStart(i)
    \/ \E i \in Nodes : Quiet /\ ReplCrash(i)
    \/ \E i \in Nodes : Quiet /\ ReplRecover(i)
    \/ \E i \in Nodes : Quiet /\ SomeCrashed /\ ClientAppendEntry(i)
    \/ \E i \in Nodes : RecvRequestCommand(i)
    \/ \E i \in Nodes : RecvResponseCommand(i)
    \/ \E i \in Nodes : RecvRequestVote(i)
    \/ \E i \in Nodes : RecvResponseVote(i)
    \/ \E i \in Nodes : Quiet /\ ElectionTimeout(i)
    \/ \E i \in Nodes : IsAliveTimeoutAgain(i)
    \/ \E i \in Nodes : CompleteSend(i)

SpecRecover == InitRecover /\ [][NextRecover]_vars /\ Fairness

\* ============================================================== claims

\* C1. Election safety: no two distinct replicas are Leader with the same
\* CurrentTerm, crashed replicas included.
ElectionSafety ==
    \A i \in Nodes : \A j \in Nodes :
        (i # j /\ node[i].State = LeaderState /\ node[j].State = LeaderState)
            => node[i].CurrentTerm # node[j].CurrentTerm

\* Two replicas are Leader at once, the older one of an earlier term.
TwoLeadersOfDifferentTerms ==
    \E i \in Nodes : \E j \in Nodes :
        /\ node[i].State = LeaderState /\ node[j].State = LeaderState
        /\ node[i].CurrentTerm < node[j].CurrentTerm

\* C2. Leader completeness: when index k is at most the commitIndex of a replica,
\* a replica that is Leader in a term later than that replica's term holds the
\* same entry at k.
LeaderCompleteness ==
    \A i \in Nodes : \A j \in Nodes :
        (node[j].State = LeaderState /\ node[j].CurrentTerm > node[i].CurrentTerm)
            => \A k \in 1 .. node[i].commitIndex :
                   /\ k \in DOMAIN node[i].log
                   /\ k \in DOMAIN node[j].log
                   /\ node[j].log[k] = node[i].log[k]

\* C3. Log matching: when two replicas hold entries of the same term at an index
\* k, the two entries are equal, and so are their entries at every index of
\* 1 .. k.
LogMatching ==
    \A i \in Nodes : \A j \in Nodes :
        \A k \in DOMAIN node[i].log \cap DOMAIN node[j].log :
            node[i].log[k].Term = node[j].log[k].Term
                => \A m \in 1 .. k :
                       /\ m \in DOMAIN node[i].log \cap DOMAIN node[j].log
                       /\ node[i].log[m] = node[j].log[m]

\* A Follower holds the entry its Leader of a later term has written over the
\* entry of an earlier Leader.
FollowerLogRewritten ==
    \E i \in Nodes : \E j \in Nodes :
        /\ i # j
        /\ 1 \in DOMAIN node[i].log \cap DOMAIN node[j].log
        /\ node[i].log[1] = node[j].log[1]
        /\ node[i].log[1].Term = MaxElections
        /\ node[i].log[1].Job.Input = MaxAppend + 1

\* C4. No step lowers the commitIndex of a replica.
CommitIndexMonotone ==
    [][\A i \in Nodes : node'[i].commitIndex >= node[i].commitIndex]_vars

\* C5. The commit index of a Leader that has run updateCommitIndex, as the claim
\* computes it: M is match_index with the Leader's own slot replaced by its
\* last_index, median is element N/2 (0-based) of M sorted ascending, and
\* commit_index is median when log_term(median) is the current term.  Stated for
\* an odd N, where element N/2 is also the largest index a strict majority holds.
ClaimedMedian(n) ==
    SortAsc([k \in 1 .. SchedulerNodeCount |->
                IF k - 1 = n.Id THEN LogLen(n) ELSE n.matchIndex[k - 1]])
        [(SchedulerNodeCount \div 2) + 1]

CommitIsMajorityIndex ==
    \A i \in Nodes :
        (/\ SchedulerNodeCount % 2 = 1
         /\ node[i].State = LeaderState
         /\ Idle(i)
         /\ LogTerm(node[i], ClaimedMedian(node[i])) = node[i].CurrentTerm)
            => node[i].commitIndex = ClaimedMedian(node[i])

\* C6. With every replica started and none crashed, an entry the Leader has
\* accepted is committed in the end: the Leader's commitIndex reaches its index.
CommitLiveness ==
    \A i \in LiveNodes :
        (/\ \A j \in Nodes : node[j].IsStarted
         /\ node[i].State = LeaderState
         /\ LogLen(node[i]) >= 1)
            ~> (node[i].commitIndex >= 1)

\* C7. In a cohort of one, the started, non-crashed replica that has handled its
\* first election timeout is Leader, and as Leader its commit index is its last
\* index.
SingleReplicaLeads ==
    (SchedulerNodeCount = 1 /\ node[0].IsStarted /\ sent.Election >= 1)
        => /\ node[0].State = LeaderState
           /\ node[0].commitIndex = LogLen(node[0])

\* C8. No step taken while IsCrashed is true changes a field of the replica other
\* than the IsCrashed and IsStarted toggles (so the step that ends the crash
\* leaves term, vote, state, log and indices as they were), and none adds a
\* message of the replica to a channel.
SentBy(chans, i) ==
    [j \in Nodes |->
        [c \in DOMAIN EmptyChannels |->
            Len(SelectSeq(chans[j][c], LAMBDA m : m.FromNode = Card(node[i])))]]

NothingSentBy(i) ==
    /\ \A j \in Nodes : \A c \in DOMAIN EmptyChannels :
           SentBy(NodeChannelMap', i)[j][c] <= SentBy(NodeChannelMap, i)[j][c]
    /\ clientResponse' # clientResponse => clientResponse'.FromNode # Card(node[i])

CrashedChangesNothing ==
    [][\A i \in Nodes :
          node[i].IsCrashed =>
              /\ node'[i] = [node[i] EXCEPT !.IsCrashed = node'[i].IsCrashed,
                                            !.IsStarted = node'[i].IsStarted]
              /\ outbox'[i] = outbox[i]
              /\ NothingSentBy(i)]_vars

\* A crashed replica has received the RequestVote of a Candidate of a higher term
\* and has kept its own term.
CrashedDroppedRequestVote ==
    \E i \in Nodes : \E j \in Nodes :
        /\ node[i].IsCrashed
        /\ node[j].State = CandidateState /\ ~node[j].IsCrashed
        /\ node[j].CurrentTerm > node[i].CurrentTerm
        /\ Idle(j)
        /\ NodeChannelMap[i].RequestVote = << >>
        /\ node[i].IsStarted

\* C9. Until a replica has handled Start, a step changes nothing of it but
\* IsStarted, and puts no response of it on any channel.
OnlyStartBeforeStarted ==
    [][\A i \in Nodes :
          ~node[i].IsStarted =>
              /\ node'[i] = [node[i] EXCEPT !.IsStarted = node'[i].IsStarted]
              /\ NothingSentBy(i)]_vars

\* C10. An AppendEntry received by a started, non-crashed replica that is not
\* Leader is answered Success = FALSE with the replica's LeaderId, and leaves the
\* replica as it was.
NotLeaderRejectsAppendEntry ==
    [][\A i \in Nodes :
          (/\ ClientAppendEntry(i)
           /\ node[i].IsStarted /\ ~node[i].IsCrashed
           /\ node[i].State # LeaderState)
              => /\ clientResponse' =
                        ResponseCommandRPC(Card(node[i]), ClientCard, "AppendEntry",
                                           node[i].CurrentTerm, FALSE, 0, node[i].LeaderId)
                 /\ node'[i].log = node[i].log
                 /\ node'[i].nextIndex = node[i].nextIndex
                 /\ node'[i].jobIdCounter = node[i].jobIdCounter
                 /\ node'[i].CurrentTerm = node[i].CurrentTerm
                 /\ node'[i].commitIndex = node[i].commitIndex]_vars

\* The client has been refused by a replica that names another replica as Leader.
ClientRedirected ==
    /\ clientResponse.CommandType = "AppendEntry"
    /\ ~clientResponse.Success
    /\ clientResponse.LeaderId # NO_NODE
    /\ clientResponse.LeaderId # clientResponse.FromNode.Id

\* C11. When a step raises the commitIndex of a Leader from c to c', the job of
\* each entry at c+1 .. c' is added to the JobQueue of the entry's WorkerId; and
\* a JobQueue grows only in such a step of a Leader.
DispatchOnCommit ==
    [][/\ \A i \in Nodes :
            (/\ node[i].State = LeaderState /\ node'[i].State = LeaderState
             /\ node'[i].commitIndex > node[i].commitIndex)
                => \A k \in (node[i].commitIndex + 1) .. node'[i].commitIndex :
                       LET entry == MapGet(node'[i].log, k)
                       IN \E p \in (Len(JobQueue[entry.WorkerId]) + 1)
                                       .. Len(JobQueue'[entry.WorkerId]) :
                              JobQueue'[entry.WorkerId][p] = entry.Job
       /\ JobQueue' # JobQueue
            => \E i \in Nodes : /\ node[i].State = LeaderState
                                /\ node'[i].commitIndex > node[i].commitIndex]_vars

\* C12. No step lowers the CurrentTerm of a replica, and a step that changes it
\* either is the replica's election timeout and adds one, or receives from one
\* of the replica's channels a message whose Term is the new, higher term.
TermMonotone ==
    [][\A i \in Nodes :
          LET old == node[i].CurrentTerm
              new == node'[i].CurrentTerm
          IN /\ new >= old
             /\ new # old
                  => \/ ElectionTimeout(i) /\ new = old + 1
                     \/ \E c \in DOMAIN EmptyChannels :
                            /\ NodeChannelMap[i][c] # << >>
                            /\ Head(NodeChannelMap[i][c]).Term = new
                            /\ Len(NodeChannelMap'[i][c]) < Len(NodeChannelMap[i][c])]_vars

\* A replica that started an election of its own has since taken the higher term
\* of another replica's election and voted in it.
TermAdoptedAfterOwnElection ==
    \E i \in Nodes : \E j \in Nodes :
        /\ i # j
        /\ node[i].State = FollowerState
        /\ node[i].CurrentTerm = MaxElections
        /\ node[i].VotedFor = j
        /\ node[i].VoteCount = 1
        /\ node[j].CurrentTerm = MaxElections

\* C13. The commitIndex of a replica is at most the number of entries of its log.
CommitIndexWithinLog ==
    \A i \in Nodes : node[i].commitIndex <= LogLen(node[i])

\* A Leader has committed its entry and a Follower has taken the commit index
\* from it.
CommittedOnLeaderAndFollower ==
    \E i \in Nodes : \E j \in Nodes :
        /\ node[i].State = LeaderState /\ node[j].State = FollowerState
        /\ node[j].LeaderId = i
        /\ node[i].commitIndex = 1 /\ LogLen(node[i]) = 1
        /\ node[j].commitIndex = 1 /\ LogLen(node[j]) = 1

\* C14. Once the crashed replica is recovered, a replica that is Leader and not
\* crashed either stops being Leader or brings every other replica's log to its
\* own log, with nextIndex for that replica just past the log.
Converged(l, f) ==
    /\ node[f].log = node[l].log
    /\ node[l].nextIndex[f] = LogLen(node[l]) + 1

LogConvergence ==
    \A l \in LiveNodes : \A f \in LiveNodes \ {l} :
        (/\ sent.Recover = limit.Recover /\ ~SomeCrashed
         /\ node[f].IsStarted
         /\ node[l].State = LeaderState)
            ~> (node[l].State # LeaderState \/ Converged(l, f))

\* The entry a Leader accepted while a replica was crashed is in every log after
\* the recovery, and the Leader's nextIndex is past it for every other replica.
RecoveredFollowerConverged ==
    \E l \in Nodes :
        /\ sent.Recover = limit.Recover /\ ~SomeCrashed
        /\ node[l].State = LeaderState
        /\ LogLen(node[l]) >= 1
        /\ \A f \in Nodes \ {l} : Converged(l, f)

\* C15. No two of the entries Leaders have made carry the same Term and Job.Id,
\* and the Job.Id of an entry is one more than the number of entries made before
\* it in the same term: 1, 2, 3, ... in the order of the appends of a leadership.
JobIdentityUnique ==
    \A a \in 1 .. Len(sent.Accepted) :
        LET e == sent.Accepted[a].Entry
            before == {b \in 1 .. (a - 1) : sent.Accepted[b].Entry.Term = e.Term}
        IN /\ e.Job.Id = Cardinality(before) + 1
           /\ e.Job.Term = e.Term
           /\ \A b \in 1 .. Len(sent.Accepted) :
                  LET f == sent.Accepted[b].Entry
                  IN a # b => <<e.Term, e.Job.Id>> # <<f.Term, f.Job.Id>>

\* One Leader has made two entries in one term.
TwoEntriesOfOneLeadership ==
    /\ Len(sent.Accepted) = 2
    /\ sent.Accepted[1].Leader = sent.Accepted[2].Leader
    /\ sent.Accepted[1].Entry.Term = sent.Accepted[2].Entry.Term

\* C16. In the log of every replica the terms of the entries do not decrease with
\* the index.
LogTermsNonDecreasing ==
    \A n \in Nodes :
        \A i \in 1 .. LogLen(node[n]) : \A j \in 1 .. LogLen(node[n]) :
            i < j => LogTerm(node[n], i) <= LogTerm(node[n], j)

\* A log holds two entries of one Leader and, after them, an entry of the Leader
\* of a later term.
LogOfTwoTerms ==
    \E n \in Nodes :
        /\ LogLen(node[n]) = 3
        /\ LogTerm(node[n], 1) = LogTerm(node[n], 2)
        /\ LogTerm(node[n], 2) < LogTerm(node[n], 3)

\* C17. Start handled by a started replica, Crash handled by a crashed replica and
\* Recover handled by a replica that is not crashed leave every field of the
\* replica as it was.
TogglesIdempotent ==
    [][\A i \in Nodes :
          /\ (ReplStart(i) /\ node[i].IsStarted) => node'[i] = node[i]
          /\ (ReplCrash(i) /\ node[i].IsCrashed) => node'[i] = node[i]
          /\ (ReplRecoverAny(i) /\ ~node[i].IsCrashed) => node'[i] = node[i]]_vars

\* A Leader with an entry in its log has handled a second Start, and the REPL has
\* sent more Recover commands than Crash commands.
TogglesRepeated ==
    \E i \in Nodes :
        /\ sent.Start[i] = MaxStart + 1
        /\ node[i].State = LeaderState
        /\ LogLen(node[i]) >= 1
        /\ sent.Recover > sent.Crash

\* C18. In the step in which a replica becomes Leader, its nextIndex is one past
\* its log for every replica, its matchIndex is 0 for every replica, its
\* jobIdCounter is 0, its LeaderId is its own id, and a SynchronizeCommand of its
\* term goes to every other replica.
SynchronizeSentTo(i, j) ==
    LET IsSync(m) == /\ m.CommandType = "Synchronize"
                     /\ m.FromNode = Card(node[i])
                     /\ m.Term = node'[i].CurrentTerm
    IN \/ \E k \in 1 .. Len(NodeChannelMap'[j].RequestCommand) :
              IsSync(NodeChannelMap'[j].RequestCommand[k])
       \/ \E k \in 1 .. Len(outbox'[i]) :
              outbox'[i][k].To = Card(node[j]) /\ IsSync(outbox'[i][k].Msg)

LeaderInitialised ==
    [][\A i \in Nodes :
          (node[i].State # LeaderState /\ node'[i].State = LeaderState)
              => /\ \A j \in Nodes : node'[i].nextIndex[j] = LogLen(node'[i]) + 1
                 /\ \A j \in Nodes : node'[i].matchIndex[j] = 0
                 /\ node'[i].jobIdCounter = 0
                 /\ node'[i].LeaderId = i
                 /\ \A j \in Nodes \ {i} : SynchronizeSentTo(i, j)]_vars

\* C19. A started, non-crashed replica that handles the RequestVote of candidate C
\* answers VoteGranted = TRUE and sets VotedFor to C exactly when, after it has
\* taken a higher term of the request, the request's term is its term, its
\* VotedFor is NO_NODE or C, and the candidate's last log term is higher than its
\* own or equal with a last log index not below its own; otherwise it answers
\* FALSE and VotedFor is as the term update left it.
VoteReply(i, request) ==
    IF outbox'[i] # << >> THEN Head(outbox'[i]).Msg
    ELSE LET c == NodeChannelMap'[request.FromNode.Id].ResponseVote IN c[Len(c)]

VoteDue(n, request) ==
    LET term == IF request.Term > n.CurrentTerm THEN request.Term ELSE n.CurrentTerm
        voted == IF request.Term > n.CurrentTerm THEN NO_NODE ELSE n.VotedFor
        ownIndex == Cardinality(DOMAIN n.log)
        ownTerm == IF ownIndex = 0 THEN 0 ELSE n.log[ownIndex].Term
    IN [Term |-> term,
        Voted |-> voted,
        Granted |-> /\ request.Term = term
                    /\ voted \in {NO_NODE, request.CandidateId}
                    /\ \/ request.LastLogTerm > ownTerm
                       \/ /\ request.LastLogTerm = ownTerm
                          /\ request.LastLogIndex >= ownIndex]

VoteGranting ==
    [][\A i \in Nodes :
          (RecvRequestVote(i) /\ ~node[i].IsCrashed)
              => LET request == Head(NodeChannelMap[i].RequestVote)
                     due == VoteDue(node[i], request)
                 IN /\ VoteReply(i, request).VoteGranted = due.Granted
                    /\ VoteReply(i, request).FromNode = Card(node[i])
                    /\ node'[i].CurrentTerm = due.Term
                    /\ node'[i].VotedFor =
                           IF due.Granted THEN request.CandidateId ELSE due.Voted]_vars

\* A Candidate whose log ends in the same term as the voter's, at a lower index,
\* has been refused by that voter, which has not voted in the Candidate's term.
ShorterLogRefused ==
    \E i \in Nodes : \E c \in Nodes :
        /\ i # c
        /\ node[c].State = CandidateState
        /\ node[i].CurrentTerm = node[c].CurrentTerm
        /\ node[i].VotedFor = NO_NODE
        /\ LogLen(node[c]) >= 1
        /\ LogLen(node[c]) < LogLen(node[i])
        /\ LogTerm(node[c], LogLen(node[c])) = LogTerm(node[i], LogLen(node[i]))
        /\ \E k \in 1 .. Len(NodeChannelMap[c].ResponseVote) :
               /\ NodeChannelMap[c].ResponseVote[k].FromNode = Card(node[i])
               /\ ~NodeChannelMap[c].ResponseVote[k].VoteGranted

\* C20. The response of a replica that is not crashed to a SynchronizeCommand
\* carries the CurrentTerm the replica has when it sends the response, the term
\* of the request taken if it was higher.
SynchronizeReply(i, request) ==
    IF outbox'[i] # << >> THEN Head(outbox'[i]).Msg
    ELSE LET c == NodeChannelMap'[request.FromNode.Id].ResponseCommand IN c[Len(c)]

ResponseCarriesCurrentTerm ==
    [][\A i \in Nodes :
          (/\ RecvRequestCommand(i)
           /\ ~node[i].IsCrashed
           /\ Head(NodeChannelMap[i].RequestCommand).CommandType = "Synchronize")
              => LET request == Head(NodeChannelMap[i].RequestCommand)
                 IN /\ SynchronizeReply(i, request).FromNode = Card(node[i])
                    /\ SynchronizeReply(i, request).Term = node'[i].CurrentTerm]_vars

\* C21. A replica that is not crashed and handles a SynchronizeCommand of a term
\* below its CurrentTerm answers Success = FALSE with MatchIndex = 0 and keeps
\* its CurrentTerm, VotedFor, State, LeaderId, log and commitIndex.
StaleLeaderRejected ==
    [][\A i \in Nodes :
          (/\ RecvRequestCommand(i)
           /\ ~node[i].IsCrashed
           /\ Head(NodeChannelMap[i].RequestCommand).CommandType = "Synchronize"
           /\ Head(NodeChannelMap[i].RequestCommand).Term < node[i].CurrentTerm)
              => LET request == Head(NodeChannelMap[i].RequestCommand)
                 IN /\ SynchronizeReply(i, request).FromNode = Card(node[i])
                    /\ ~SynchronizeReply(i, request).Success
                    /\ SynchronizeReply(i, request).MatchIndex = 0
                    /\ node'[i].CurrentTerm = node[i].CurrentTerm
                    /\ node'[i].VotedFor = node[i].VotedFor
                    /\ node'[i].State = node[i].State
                    /\ node'[i].LeaderId = node[i].LeaderId
                    /\ node'[i].log = node[i].log
                    /\ node'[i].commitIndex = node[i].commitIndex]_vars

\* The Leader of a later term has refused the SynchronizeCommand of a Leader of an
\* earlier term and is Leader still.
StaleLeaderRefusedByLeader ==
    \E l \in Nodes : \E k \in 1 .. Len(NodeChannelMap[l].ResponseCommand) :
        LET response == NodeChannelMap[l].ResponseCommand[k]
        IN /\ node[l].State = LeaderState
           /\ ~response.Success
           /\ response.Term > node[l].CurrentTerm
           /\ node[response.FromNode.Id].State = LeaderState
           /\ node[response.FromNode.Id].CurrentTerm = response.Term

\* C22. A replica that is not crashed handles a SynchronizeCommand of a term not
\* below its own.  When PrevIndex is 0, or is at most its last index with the
\* term of its entry there equal to PrevTerm, then after the step its log has its
\* old entries at 1 .. PrevIndex, ends at PrevIndex + len(Entries) with the terms
\* of Entries after PrevIndex, its commitIndex is the lower of the request's
\* CommitIndex and that last index, it is Follower with the sender as LeaderId,
\* and it answers Success = TRUE with MatchIndex the last index.  Otherwise its
\* log and commitIndex stay and it answers Success = FALSE with MatchIndex = 0.
SynchronizeConsistent(n, request) ==
    LET lastIndex == Cardinality(DOMAIN n.log)
    IN \/ request.PrevIndex = 0
       \/ /\ request.PrevIndex <= lastIndex
          /\ n.log[request.PrevIndex].Term = request.PrevTerm

SendWaits(i) ==
    /\ ~Idle(i)
    /\ ~HasRoom(NodeChannelMap, Head(outbox[i]).To.Id, Head(outbox[i]).Chan)

HandlersNeverBlock ==
    \A i \in Nodes :
        SendWaits(i)
            => LET to == Head(outbox[i]).To.Id
               IN /\ node[to].IsStarted \/ Head(outbox[i]).Chan = "RequestCommand"
                  /\ ~(SendWaits(to) /\ Head(outbox[to]).To.Id = i)

\* C24. No step removes an entry of a replica at an index up to the commitIndex
\* the replica had before the step, or puts a different entry there.
CommittedEntriesKept ==
    [][\A i \in Nodes : \A k \in 1 .. node[i].commitIndex :
          /\ k \in DOMAIN node'[i].log
          /\ node'[i].log[k] = MapGet(node[i].log, k)]_vars

\* C25. In every state where a replica is Leader, its own nextIndex is one past
\* the last index of its log, its log indices are exactly 1..len, and its
\* nextIndex for every other replica lies between 1 and one past its last index.
IndexBookkeeping ==
    \A i \in Nodes :
        node[i].State = LeaderState =>
            /\ DOMAIN node[i].log = 1 .. LogLen(node[i])
            /\ node[i].nextIndex[i] = LogLen(node[i]) + 1
            /\ \A f \in Nodes \ {i} :
                   /\ 1 <= node[i].nextIndex[f]
                   /\ node[i].nextIndex[f] <= LogLen(node[i]) + 1

\* A Leader that has stored an entry, has been acknowledged up to its last
\* index by one replica and still points below its last index for another.
LeaderIndexesMoved ==
    \E i \in Nodes :
        /\ node[i].State = LeaderState
        /\ LogLen(node[i]) >= 1
        /\ \E f \in Nodes \ {i} :
               /\ node[i].matchIndex[f] = LogLen(node[i])
               /\ node[i].nextIndex[f] = LogLen(node[i]) + 1
        /\ \E g \in Nodes \ {i} : node[i].nextIndex[g] <= LogLen(node[i])

====
